---- MODULE Spec2Model ----
(***************************************************************************)
(* A model of the HelpingHands request / flag / match-queue core.          *)
(*                                                                         *)
(* Every database operation of the entity and service layers is one        *)
(* action: the handlers run inside transaction.atomic, so an exception     *)
(* (ValueError, AttributeError on a missing committer, DoesNotExist,       *)
(* IntegrityError) rolls every write back; the outcome is kept in `last`.  *)
(* Timestamps are minutes on the clock `now`; NoTime is a NULL timestamp.  *)
(***************************************************************************)
EXTENDS Integers, Sequences, FiniteSets, TLC

\* ------------------------------------------------------------------ bounds
MaxLog == 2            \* Spec: Notification rows per request
MaxFlags == 1          \* Spec: FlaggedRequest rows per request
MaxTicks == 1          \* Spec: Ticks of the clock
QueueLog == 4          \* SpecQueue: Notification rows per request
QueueTicks == 2        \* SpecQueue: Ticks of the clock
DeclineLog == 9        \* SpecDecline: Notification rows per request
ModerationFlags == 2   \* SpecModeration: FlaggedRequest rows per request
RaceLog == 5           \* SpecRace: Notification rows per request
RaceTicks == 1         \* SpecRace: Ticks of the clock
CommitRaceFlags == 1   \* SpecCommitRace: FlaggedRequest rows per request
CommitRaceTicks == 1   \* SpecCommitRace: Ticks of the clock
SweepLog == 3          \* SpecSweep: Notification rows per request
SweepFlags == 1        \* SpecSweep: FlaggedRequest rows per request
SweepTicks == 1        \* SpecSweep: Ticks of the clock
LiveLog == 7           \* SpecLive: Notification rows per request
LiveFlags == 1         \* SpecLive: FlaggedRequest rows per request
LiveTicks == 3         \* SpecLive: Ticks of the clock

\* ------------------------------------------------------- program constants
DefaultTimeoutMinutes == 30   \* send_offers(timeout_minutes=30)
AdvanceTimeoutMinutes == 30   \* _advance_queue: timedelta(minutes=30)
ChatExpiryHours == 24         \* complete_request: timedelta(hours=24)
CategoryScore == 3            \* _score_cv_for_request: category match
GenderScore == 2              \* _score_cv_for_request: preferred gender
MainLanguageScore == 2        \* _score_cv_for_request: main language
SecondLanguageScore == 1      \* _score_cv_for_request: second language
AvailabilityScore == 1        \* _score_cv_for_request: placeholder
SuggestLimit == 7             \* suggest_top(limit=7)

\* One Tick of the clock carries it just past an offer's timeout window.
TickMinutes == DefaultTimeoutMinutes + 1

\* ---------------------------------------------------------------- domains
NULL == "NULL"
NoTime == 0 - 1
Requests == {"r1", "r2"}
CVs == {"cvA", "cvB", "cvC"}          \* ids of the CV rows
GhostCv == "cvX"                      \* an id of no CV row
CSRs == {"csr1", "csr2"}
MainCSRs == {"csr1"}                  \* the CSR of the single-CSR specifications
PAs == {"pa1"}

VARIABLES
    req,        \* Request rows:  request id -> row (status "absent": no row)
    mq,         \* MatchQueue rows: request id -> row (status "absent": no row)
    flags,      \* FlaggedRequest rows of each request, oldest first
    notifs,     \* Notification rows of each request, oldest first
    chat,       \* ChatRoom.expires_at of each request (NoTime: NULL / no room)
    now,        \* timezone.now()
    last,       \* the response of the call just served: [op, result, ret]
    tx,         \* the two transactions in flight in SpecRace, and the row locks
    profiles    \* the PIN's preferences, the request's category, the CV rows

vars == <<req, mq, flags, notifs, chat, now, last, tx, profiles>>

NoRequest ==
    [status |-> "absent", cv |-> NULL, committed_by_csr |-> NULL,
     committed_at |-> NoTime, completed_at |-> NoTime]

NoQueue ==
    [cv1queue |-> NULL, cv2queue |-> NULL, cv3queue |-> NULL,
     current_index |-> 1, status |-> "absent", sent_at |-> NoTime,
     deadline |-> NoTime]

\* The CHECK constraints of the Request table (req_pending_not_committed and
\* its companion for COMMITTED rows), evaluated on every INSERT / UPDATE.
CheckConstraints(rq) ==
    /\ rq.status = "pending" =>
            rq.committed_by_csr = NULL /\ rq.committed_at = NoTime
    /\ rq.status = "committed" =>
            rq.committed_by_csr # NULL /\ rq.committed_at # NoTime

\* ------------------------------------------------- one transaction's view
\* s = [req, mq, notifs, err]: the rows of one request as the running
\* transaction sees them, and the exception raised so far ("" for none).
Load(r) == [req |-> req[r], mq |-> mq[r], notifs |-> notifs[r], err |-> ""]

Raise(s, e) == IF s.err # "" THEN s ELSE [s EXCEPT !.err = e]

\* Model.save(): the row is written unless a CHECK constraint rejects it.
SaveRequest(s, rq) ==
    IF s.err # "" THEN s
    ELSE IF ~CheckConstraints(rq) THEN [s EXCEPT !.err = "IntegrityError"]
    ELSE [s EXCEPT !.req = rq]

SaveQueue(s, q) == IF s.err # "" THEN s ELSE [s EXCEPT !.mq = q]

\* Notification.objects.create(recipient=req.committed_by_csr.user, ...):
\* dereferencing a NULL committer raises AttributeError.
NotificationCreate(s, type, cv) ==
    IF s.err # "" THEN s
    ELSE IF s.req.committed_by_csr = NULL THEN [s EXCEPT !.err = "AttributeError"]
    ELSE [s EXCEPT !.notifs = Append(@, [type |-> type, cv |-> cv])]

get_current_cv(q) ==
    IF q.current_index = 1 THEN q.cv1queue
    ELSE IF q.current_index = 2 THEN q.cv2queue
    ELSE IF q.current_index = 3 THEN q.cv3queue
    ELSE NULL

\* ------------------------------------------------------- Candidate Ranking
\* The choices of ServiceCategory, LanguageChoices and GenderChoices that the
\* ranking is explored on; "" is a blank CharField.
ServiceCategories == {"Healthcare", "Community Event"}
Languages == {"zh", "en"}
Genders == {"female", "male"}

PinProfiles ==
    [preferred_cv_language : Languages, preferred_cv_gender : {"", "female"}]

CvProfiles ==
    [gender : Genders, main_language : Languages, second_language : {"", "zh"},
     service_category_preference : ServiceCategories]

\* The rows of the sequential specifications: a PIN who prefers zh and female,
\* a Healthcare request, and three CVs: one matching everything, one matching
\* the category only, one matching nothing.
DefaultProfiles ==
    [pin |-> [preferred_cv_language |-> "zh", preferred_cv_gender |-> "female"],
     service_type |-> "Healthcare",
     cv |-> [c \in CVs |->
                IF c = "cvA"
                THEN [gender |-> "female", main_language |-> "zh",
                      second_language |-> "", service_category_preference |-> "Healthcare"]
                ELSE IF c = "cvB"
                THEN [gender |-> "male", main_language |-> "en",
                      second_language |-> "", service_category_preference |-> "Healthcare"]
                ELSE [gender |-> "male", main_language |-> "en",
                      second_language |-> "",
                      service_category_preference |-> "Community Event"]]]

\* Faulty variant of _score_cv_for_request: the category earns nothing.
score_ignoring_category(service_type, pin, cv) ==
    (IF pin.preferred_cv_gender # "" /\ cv.gender = pin.preferred_cv_gender
     THEN GenderScore ELSE 0)
    + (IF cv.main_language = pin.preferred_cv_language THEN MainLanguageScore
       ELSE IF cv.second_language # "" /\ cv.second_language = pin.preferred_cv_language
       THEN SecondLanguageScore ELSE 0)
    + AvailabilityScore

\* MatchEntity._score_cv_for_request: the score (3.0, 2.0 and 1.0 are exact).
score_cv_for_request(service_type, pin, cv) ==
    (IF cv.service_category_preference = service_type THEN CategoryScore ELSE 0)
    + (IF pin.preferred_cv_gender # "" /\ cv.gender = pin.preferred_cv_gender
       THEN GenderScore ELSE 0)
    + (IF cv.main_language = pin.preferred_cv_language THEN MainLanguageScore
       ELSE IF cv.second_language # "" /\ cv.second_language = pin.preferred_cv_language
       THEN SecondLanguageScore ELSE 0)
    + AvailabilityScore

\* MatchEntity._score_cv_for_request: the reasons.
reasons_for_request(service_type, pin, cv) ==
    (IF cv.service_category_preference = service_type THEN {"category"} ELSE {})
    \cup (IF pin.preferred_cv_gender # "" /\ cv.gender = pin.preferred_cv_gender
          THEN {"gender"} ELSE {})
    \cup (IF cv.main_language = pin.preferred_cv_language THEN {"language_main"}
          ELSE IF cv.second_language # "" /\ cv.second_language = pin.preferred_cv_language
          THEN {"language_second"} ELSE {})

MaxScore == CategoryScore + GenderScore + MainLanguageScore + AvailabilityScore

\* list.sort(key=score, reverse=True): stable, highest score first.
RECURSIVE SortByScore(_, _)
SortByScore(scored, k) ==
    IF k < 0 THEN <<>>
    ELSE SelectSeq(scored, LAMBDA x : x.score = k) \o SortByScore(scored, k - 1)

\* CV.objects.all() has no ordering: the rows come in an order the database picks.
CvOrders ==
    {o \in [1..Cardinality(CVs) -> CVs] : \A i, j \in DOMAIN o : o[i] = o[j] => i = j}

\* MatchEntity.suggest_top, over the CV rows in the order `order`.
suggest_top_of(p, order, limit) ==
    LET all == [i \in DOMAIN order |->
                   [cv_id |-> order[i],
                    score |-> score_cv_for_request(p.service_type, p.pin, p.cv[order[i]]),
                    reason |-> reasons_for_request(p.service_type, p.pin,
                                                   p.cv[order[i]])]]
        scored == SortByScore(SelectSeq(all, LAMBDA x : x.score > 0), MaxScore)
    IN SubSeq(scored, 1, IF Len(scored) < limit THEN Len(scored) ELSE limit)

\* ------------------------------------------------------------- bookkeeping
Result(op, res, ret) == [op |-> op, result |-> res, ret |-> ret]

\* Commit the transaction's view of request r, or roll it back on an error.
Finish(op, r, s) ==
    /\ IF s.err = ""
       THEN /\ req' = [req EXCEPT ![r] = s.req]
            /\ mq' = [mq EXCEPT ![r] = s.mq]
            /\ notifs' = [notifs EXCEPT ![r] = s.notifs]
       ELSE UNCHANGED <<req, mq, notifs>>
    /\ last' = Result(op, IF s.err = "" THEN "ok" ELSE s.err, 0)
    /\ UNCHANGED <<flags, chat, now, tx, profiles>>

\* No transaction in flight, and no row locked.
Procs == {"decision", "sweep"}

IdleTx ==
    [pc |-> [p \in Procs |-> "idle"],
     lock |-> [request |-> NULL, queue |-> NULL],
     pending |-> [req |-> NoRequest, mq |-> NoQueue, notifs |-> <<>>, err |-> ""],
     cv_id |-> NULL, start_index |-> 0,
     result |-> [p \in Procs |-> ""], ret |-> 0,
     committer |-> [c \in CSRs |-> [pc |-> "idle", row |-> NoRequest, result |-> ""]],
     start_status |-> "absent"]

\* A call whose precondition failure (a ValueError or DoesNotExist raised before
\* any write) is not followed: the action is enabled only where the call succeeds.
Succeeds(op, r, s) == s.err = "" /\ Finish(op, r, s)

Init ==
    /\ req = [r \in Requests |-> NoRequest]
    /\ mq = [r \in Requests |-> NoQueue]
    /\ flags = [r \in Requests |-> <<>>]
    /\ notifs = [r \in Requests |-> <<>>]
    /\ chat = [r \in Requests |-> NoTime]
    /\ now = 0
    /\ last = Result("init", "ok", 0)
    /\ tx = IdleTx
    /\ profiles = DefaultProfiles

\* ------------------------------------------------------- Request Lifecycle
\* RequestEntity.commit
commit_txn(s, csr, t) ==
    IF s.req.status = "absent" THEN Raise(s, "DoesNotExist")
    ELSE IF s.req.status # "pending" THEN Raise(s, "ValueError")
    ELSE SaveRequest(s, [s.req EXCEPT !.status = "committed",
                                      !.committed_by_csr = csr,
                                      !.committed_at = t])

commit(csr, r) == Succeeds("commit", r, commit_txn(Load(r), csr, now))

\* PinController.submit_request: the moderation verdict (flagged) decides the
\* first status; a flagged request also gets an unresolved auto flag, whose
\* post_save signal finds the request in review already.
NewFlag(type, csr) ==
    [flag_type |-> type, csr |-> csr, resolved |-> FALSE, resolved_at |-> NoTime,
     resolved_by |-> NULL, resolution_outcome |-> NULL]

submit_request(r, flagged) ==
    /\ req[r].status = "absent"
    /\ req' = [req EXCEPT ![r] = [NoRequest EXCEPT
                    !.status = IF flagged THEN "review" ELSE "pending"]]
    /\ flags' = [flags EXCEPT ![r] = IF flagged THEN <<NewFlag("auto", NULL)>> ELSE <<>>]
    /\ last' = Result("submit_request", "ok", 0)
    /\ UNCHANGED <<mq, notifs, chat, now, tx, profiles>>

\* requests_services.create_request: new requests always start in review.
create_request(r) ==
    /\ req[r].status = "absent"
    /\ req' = [req EXCEPT ![r] = [NoRequest EXCEPT !.status = "review"]]
    /\ last' = Result("create_request", "ok", 0)
    /\ UNCHANGED <<mq, flags, notifs, chat, now, tx, profiles>>

\* requests_services._assert_status
assert_status(s, expected) ==
    IF s.req.status # expected THEN Raise(s, "ValueError") ELSE s

\* requests_services.moderation_pass / moderation_reject
moderation_pass_txn(s) ==
    SaveRequest(assert_status(s, "review"), [s.req EXCEPT !.status = "pending"])

moderation_reject_txn(s) ==
    SaveRequest(assert_status(s, "review"), [s.req EXCEPT !.status = "rejected"])

moderation_pass(r) ==
    Succeeds("moderation_pass", r, moderation_pass_txn(Load(r)))

moderation_reject(r) ==
    Succeeds("moderation_reject", r, moderation_reject_txn(Load(r)))

\* requests_services.assign_cv: PENDING -> ACTIVE, cv set.
assign_cv_txn(s, cv) ==
    SaveRequest(assert_status(s, "pending"),
                [s.req EXCEPT !.cv = cv, !.status = "active"])

assign_cv(r, cv) ==
    Succeeds("assign_cv", r, assign_cv_txn(Load(r), cv))

\* requests_services.unassign_cv: ACTIVE -> PENDING, cv cleared.
unassign_cv_txn(s) ==
    SaveRequest(assert_status(s, "active"),
                [s.req EXCEPT !.cv = NULL, !.status = "pending"])

unassign_cv(r) ==
    Succeeds("unassign_cv", r, unassign_cv_txn(Load(r)))

\* requests_services.complete_request: ACTIVE -> COMPLETE. Request.save()
\* stamps completed_at on the object only: update_fields leaves the column out.
svc_complete_request_txn(s) ==
    SaveRequest(assert_status(s, "active"), [s.req EXCEPT !.status = "complete"])

svc_complete_request(r) ==
    Succeeds("svc_complete_request", r, svc_complete_request_txn(Load(r)))

\* ChatEntity.complete_request (through ChatController.complete_request for the
\* request's PIN or CV): no check of the prior status.
chat_complete_txn(s, t) ==
    SaveRequest(s, [s.req EXCEPT
        !.status = "complete",
        !.completed_at = IF s.req.completed_at = NoTime THEN t ELSE @])

chat_complete_request(r) ==
    LET s == chat_complete_txn(Load(r), now)
    IN /\ req[r].status # "absent"
       /\ s.err = ""
       /\ req' = [req EXCEPT ![r] = s.req]
       /\ chat' = [chat EXCEPT ![r] = s.req.completed_at + ChatExpiryHours * 60]
       /\ last' = Result("chat_complete_request", "ok", 0)
       /\ UNCHANGED <<mq, flags, notifs, now, tx, profiles>>

\* ------------------------------------------------------------- Flag Ledger
\* Faulty variant of the signal handler: only a pending request is moved to review.
move_pending_request_to_review(rq, flag) ==
    IF ~flag.resolved /\ rq.status = "pending"
    THEN [rq EXCEPT !.status = "review"]
    ELSE rq

\* signals.move_request_to_review_on_open_flag, run after every save of a flag.
move_request_to_review_on_open_flag(rq, flag) ==
    IF ~flag.resolved /\ rq.status # "review"
    THEN [rq EXCEPT !.status = "review"]
    ELSE rq

\* flagsServices.auto_flag_request / manual_flag_request
create_flag(r, type, csr) ==
    /\ req[r].status # "absent"
    /\ LET flag == NewFlag(type, csr)
       IN /\ flags' = [flags EXCEPT ![r] = Append(@, flag)]
          /\ req' = [req EXCEPT ![r] = move_request_to_review_on_open_flag(@, flag)]
    /\ last' = Result(IF type = "auto" THEN "auto_flag_request"
                      ELSE "manual_flag_request", "ok", 0)
    /\ UNCHANGED <<mq, notifs, chat, now, tx, profiles>>

auto_flag_request(r) == create_flag(r, "auto", NULL)

manual_flag_request(r, csr) == create_flag(r, "manual", csr)

\* Faulty variant of update_status_after_pa_action: an accept leaves the request
\* as it is.
update_status_on_reject_only(rq, action) ==
    IF action = "reject" THEN [rq EXCEPT !.status = "rejected"] ELSE rq

\* RequestEntity.update_status_after_pa_action (admin_entities)
update_status_after_pa_action(rq, action) ==
    IF action = "reject" THEN [rq EXCEPT !.status = "rejected"]
    ELSE IF action = "accept"
    THEN [rq EXCEPT !.status = "pending", !.committed_by_csr = NULL,
                    !.committed_at = NoTime]
    ELSE rq

\* FlagEntity.accept_flag / reject_flag: flag i of request r, resolved by pa.
resolve_flag(r, i, pa, action, outcome) ==
    /\ i \in DOMAIN flags[r]
    /\ LET flag == [flags[r][i] EXCEPT !.resolved = TRUE, !.resolved_at = now,
                                       !.resolved_by = pa,
                                       !.resolution_outcome = outcome]
           rq == update_status_after_pa_action(
                    move_request_to_review_on_open_flag(req[r], flag), action)
       IN /\ CheckConstraints(rq)
          /\ flags' = [flags EXCEPT ![r][i] = flag]
          /\ req' = [req EXCEPT ![r] = rq]
          /\ last' = Result(IF action = "accept" THEN "accept_flag" ELSE "reject_flag",
                            "ok", 0)
    /\ UNCHANGED <<mq, notifs, chat, now, tx, profiles>>

accept_flag(r, i, pa) == resolve_flag(r, i, pa, "accept", "accepted")

reject_flag(r, i, pa) == resolve_flag(r, i, pa, "reject", "rejected")

\* ------------------------------------------------------------- Match Queue
\* The candidate lists a CSR may post to set_assignment_pool.
PoolInputs ==
    { <<>>, <<"cvA">>, <<"cvA", "cvB">>, <<"cvA", "cvB", "cvC">>, <<"cvA", "cvA">>,
      <<"cvA", GhostCv>>, <<"cvA", "cvB", "cvC", "cvA">> }

\* MatchEntity.set_assignment_pool
set_assignment_pool_txn(s, cv_ids) ==
    IF ~(1 <= Len(cv_ids) /\ Len(cv_ids) <= 3) THEN Raise(s, "ValueError")
    ELSE IF s.req.status = "absent" THEN Raise(s, "DoesNotExist")
    ELSE LET ordered == SelectSeq(cv_ids, LAMBDA cid : cid \in CVs)
         IN IF Len(ordered) # Len(cv_ids) THEN Raise(s, "ValueError")
            ELSE SaveQueue(s,
                    [cv1queue |-> ordered[1],
                     cv2queue |-> IF Len(ordered) > 1 THEN ordered[2] ELSE NULL,
                     cv3queue |-> IF Len(ordered) > 2 THEN ordered[3] ELSE NULL,
                     current_index |-> 1, status |-> "pending",
                     sent_at |-> NoTime, deadline |-> NoTime])

set_assignment_pool(r, cv_ids) ==
    /\ req[r].status # "absent"
    /\ Finish("set_assignment_pool", r, set_assignment_pool_txn(Load(r), cv_ids))

\* MatchEntity.send_offers
send_offers_txn(s, timeout_minutes, t) ==
    IF s.req.status = "absent" \/ s.mq.status = "absent" THEN Raise(s, "DoesNotExist")
    ELSE LET q == [s.mq EXCEPT !.status = "active", !.sent_at = t,
                               !.deadline = t + timeout_minutes]
         IN NotificationCreate(SaveQueue(s, q), "offer_sent", get_current_cv(q))

send_offers(r, timeout_minutes) ==
    /\ mq[r].status # "absent"
    /\ Finish("send_offers", r, send_offers_txn(Load(r), timeout_minutes, now))

\* Faulty variant of _advance_queue: the move to the next slot is not notified.
advance_queue_silent(s, t) ==
    LET q == s.mq
        nxt == q.current_index + 1
        next_cv == IF nxt = 2 THEN q.cv2queue
                   ELSE IF nxt = 3 THEN q.cv3queue
                   ELSE NULL
    IN IF s.err # "" THEN s
       ELSE IF next_cv # NULL
       THEN SaveQueue(s, [q EXCEPT !.current_index = nxt, !.sent_at = t,
                                   !.deadline = t + AdvanceTimeoutMinutes,
                                   !.status = "active"])
       ELSE LET s1 == NotificationCreate(
                        SaveQueue(s, [q EXCEPT !.status = "exhausted"]),
                        "no_match_found", NULL)
            IN SaveRequest(s1, [s1.req EXCEPT !.status = "committed", !.cv = NULL])

\* MatchProgressEntity._advance_queue
advance_queue(s, t) ==
    LET q == s.mq
        nxt == q.current_index + 1
        next_cv == IF nxt = 2 THEN q.cv2queue
                   ELSE IF nxt = 3 THEN q.cv3queue
                   ELSE NULL
    IN IF s.err # "" THEN s
       ELSE IF next_cv # NULL
       THEN NotificationCreate(
                SaveQueue(s, [q EXCEPT !.current_index = nxt, !.sent_at = t,
                                       !.deadline = t + AdvanceTimeoutMinutes,
                                       !.status = "active"]),
                "queue_advanced", next_cv)
       ELSE LET s1 == NotificationCreate(
                        SaveQueue(s, [q EXCEPT !.status = "exhausted"]),
                        "no_match_found", NULL)
            IN SaveRequest(s1, [s1.req EXCEPT !.status = "committed", !.cv = NULL])

\* Faulty variant of record_cv_decision: an accept leaves the queue as it is.
record_cv_decision_queue_kept(s, cv_id, accepted, t) ==
    LET current_cv == get_current_cv(s.mq)
    IN IF s.req.status = "absent" \/ s.mq.status = "absent"
       THEN Raise(s, "DoesNotExist")
       ELSE IF current_cv = NULL \/ current_cv # cv_id \/ s.mq.status # "active"
       THEN Raise(s, "ValueError")
       ELSE IF accepted
       THEN NotificationCreate(
                SaveRequest(s, [s.req EXCEPT !.cv = current_cv, !.status = "active"]),
                "match_accepted", current_cv)
       ELSE advance_queue(NotificationCreate(s, "offer_declined", current_cv), t)

\* Faulty variant of record_cv_decision: the queue's status is not checked.
record_cv_decision_any_status(s, cv_id, accepted, t) ==
    LET current_cv == get_current_cv(s.mq)
    IN IF s.req.status = "absent" \/ s.mq.status = "absent"
       THEN Raise(s, "DoesNotExist")
       ELSE IF current_cv = NULL \/ current_cv # cv_id
       THEN Raise(s, "ValueError")
       ELSE IF accepted
       THEN NotificationCreate(
                SaveQueue(SaveRequest(s, [s.req EXCEPT !.cv = current_cv,
                                                       !.status = "active"]),
                          [s.mq EXCEPT !.status = "filled"]),
                "match_accepted", current_cv)
       ELSE advance_queue(NotificationCreate(s, "offer_declined", current_cv), t)

\* MatchProgressEntity.record_cv_decision
record_cv_decision_txn(s, cv_id, accepted, t) ==
    LET current_cv == get_current_cv(s.mq)
    IN IF s.req.status = "absent" \/ s.mq.status = "absent"
       THEN Raise(s, "DoesNotExist")
       ELSE IF current_cv = NULL \/ current_cv # cv_id \/ s.mq.status # "active"
       THEN Raise(s, "ValueError")
       ELSE IF accepted
       THEN NotificationCreate(
                SaveQueue(SaveRequest(s, [s.req EXCEPT !.cv = current_cv,
                                                       !.status = "active"]),
                          [s.mq EXCEPT !.status = "filled"]),
                "match_accepted", current_cv)
       ELSE advance_queue(NotificationCreate(s, "offer_declined", current_cv), t)

record_cv_decision(r, cv_id, accepted) ==
    /\ mq[r].status # "absent"
    /\ Finish("record_cv_decision", r,
              record_cv_decision_txn(Load(r), cv_id, accepted, now))

\* The filter of auto_advance_dormant: ACTIVE queues whose deadline has passed.
is_dormant(q, t) == q.status = "active" /\ q.deadline # NoTime /\ q.deadline < t

\* The body of auto_advance_dormant's loop for one queue.
sweep_one(s, t) ==
    LET s1 == advance_queue(s, t)
    IN NotificationCreate(s1, "offer_expired", get_current_cv(s1.mq))

\* MatchProgressEntity.auto_advance_dormant: one transaction over every dormant
\* queue, so one exception rolls all of them back.
auto_advance_dormant ==
    LET dormant == {r \in Requests : is_dormant(mq[r], now)}
        out == [r \in dormant |-> sweep_one(Load(r), now)]
        failed == {r \in dormant : out[r].err # ""}
    IN /\ IF failed = {}
          THEN /\ req' = [r \in Requests |-> IF r \in dormant THEN out[r].req ELSE req[r]]
               /\ mq' = [r \in Requests |-> IF r \in dormant THEN out[r].mq ELSE mq[r]]
               /\ notifs' = [r \in Requests |->
                                IF r \in dormant THEN out[r].notifs ELSE notifs[r]]
               /\ last' = Result("auto_advance_dormant", "ok", Cardinality(dormant))
          ELSE /\ UNCHANGED <<req, mq, notifs>>
               /\ last' = Result("auto_advance_dormant", "AttributeError", 0)
       /\ UNCHANGED <<flags, chat, now, tx, profiles>>

\* MatchProgressEntity.ensure_current_queue, the first step of
\* CSRMatchController.get_assignment_pool.
ensure_current_queue_txn(s, t) ==
    IF s.req.status = "absent" \/ s.mq.status = "absent" THEN s
    ELSE IF is_dormant(s.mq, t) THEN advance_queue(s, t)
    ELSE s

get_assignment_pool(r) ==
    /\ mq[r].status # "absent"
    /\ Finish("get_assignment_pool", r, ensure_current_queue_txn(Load(r), now))

Tick ==
    /\ now' = now + TickMinutes
    /\ UNCHANGED <<req, mq, flags, notifs, chat, last, tx, profiles>>

\* ------------------------------------------- a decline racing the sweep
\* SpecRace runs record_cv_decision(r, current cv, accepted=False) and
\* auto_advance_dormant as two transactions on a row-locking database, one
\* statement at a time.  select_for_update() waits for a row lock and then
\* reads the committed row; an UPDATE takes the lock of the row it writes;
\* locks are held until the transaction ends.
next_cv_of(q) ==
    IF q.current_index + 1 = 2 THEN q.cv2queue
    ELSE IF q.current_index + 1 = 3 THEN q.cv3queue
    ELSE NULL

\* Both calls arrive while the current offer of r's queue is past its deadline.
StartRace(r) ==
    /\ tx = IdleTx
    /\ is_dormant(mq[r], now)
    /\ get_current_cv(mq[r]) # NULL
    /\ tx' = [IdleTx EXCEPT !.pc = [decision |-> "lock_request", sweep |-> "select"],
                            !.cv_id = get_current_cv(mq[r]),
                            !.start_index = mq[r].current_index]
    /\ UNCHANGED <<req, mq, flags, notifs, chat, now, last, profiles>>

\* record_cv_decision: Request.objects.select_for_update().get(pk=request_id)
decision_lock_request(r) ==
    /\ tx.pc["decision"] = "lock_request"
    /\ tx.lock.request = NULL
    /\ tx' = [tx EXCEPT !.pc["decision"] = "lock_queue", !.lock.request = "decision"]
    /\ UNCHANGED <<req, mq, flags, notifs, chat, now, last, profiles>>

\* record_cv_decision: MatchQueue.objects.select_for_update().get(request=req)
decision_lock_queue(r) ==
    /\ tx.pc["decision"] = "lock_queue"
    /\ tx.lock.queue = NULL
    /\ tx' = [tx EXCEPT !.pc["decision"] = "decide", !.lock.queue = "decision"]
    /\ UNCHANGED <<req, mq, flags, notifs, chat, now, last, profiles>>

\* record_cv_decision: the checks, the decline and the commit (or rollback),
\* with both rows locked.
decision_finish(r) ==
    LET s == record_cv_decision_txn(Load(r), tx.cv_id, FALSE, now)
        res == IF s.err = "" THEN "ok" ELSE s.err
    IN /\ tx.pc["decision"] = "decide"
       /\ IF s.err = ""
          THEN /\ req' = [req EXCEPT ![r] = s.req]
               /\ mq' = [mq EXCEPT ![r] = s.mq]
               /\ notifs' = [notifs EXCEPT ![r] = s.notifs]
          ELSE UNCHANGED <<req, mq, notifs>>
       /\ tx' = [tx EXCEPT !.pc["decision"] = "done", !.result["decision"] = res,
                           !.lock = [request |-> NULL, queue |-> NULL]]
       /\ last' = Result("record_cv_decision", res, 0)
       /\ UNCHANGED <<flags, chat, now, profiles>>

\* auto_advance_dormant: the locking SELECT.  It waits for the queue row; a row
\* that no longer matches the filter once the lock is granted is skipped.
sweep_select(r) ==
    /\ tx.pc["sweep"] = "select"
    /\ tx.lock.queue = NULL
    /\ IF is_dormant(mq[r], now)
       THEN /\ tx' = [tx EXCEPT !.pc["sweep"] = "advance", !.lock.queue = "sweep"]
            /\ UNCHANGED last
       ELSE /\ tx' = [tx EXCEPT !.pc["sweep"] = "done", !.result["sweep"] = "ok",
                                !.ret = 0]
            /\ last' = Result("auto_advance_dormant", "ok", 0)
    /\ UNCHANGED <<req, mq, flags, notifs, chat, now, profiles>>

\* The sweep's loop body writes the Request row only when the queue exhausts.
sweep_writes_request(r) == next_cv_of(mq[r]) = NULL /\ req[r].committed_by_csr # NULL

\* auto_advance_dormant: the loop body for r.  req = mq.request is read without
\* a lock; req.save() in the exhausted branch waits for the Request row.
sweep_advance(r) ==
    /\ tx.pc["sweep"] = "advance"
    /\ sweep_writes_request(r) => tx.lock.request = NULL
    /\ tx' = [tx EXCEPT !.pc["sweep"] = "commit",
                        !.pending = sweep_one(Load(r), now),
                        !.lock.request = IF sweep_writes_request(r) THEN "sweep" ELSE @]
    /\ UNCHANGED <<req, mq, flags, notifs, chat, now, last, profiles>>

\* auto_advance_dormant: the transaction commits, or rolls back on an exception.
sweep_commit(r) ==
    LET s == tx.pending
        res == IF s.err = "" THEN "ok" ELSE s.err
    IN /\ tx.pc["sweep"] = "commit"
       /\ IF s.err = ""
          THEN /\ req' = [req EXCEPT ![r] = s.req]
               /\ mq' = [mq EXCEPT ![r] = s.mq]
               /\ notifs' = [notifs EXCEPT ![r] = s.notifs]
          ELSE UNCHANGED <<req, mq, notifs>>
       /\ tx' = [tx EXCEPT !.pc["sweep"] = "done", !.result["sweep"] = res,
                           !.ret = IF s.err = "" THEN 1 ELSE 0,
                           !.lock = [request |-> IF @.request = "sweep" THEN NULL
                                                 ELSE @.request,
                                     queue |-> NULL]]
       /\ last' = Result("auto_advance_dormant", res, IF s.err = "" THEN 1 ELSE 0)
       /\ UNCHANGED <<flags, chat, now, profiles>>

\* Each transaction waits for a row the other has locked.
Deadlocked(r) ==
    /\ tx.pc["decision"] = "lock_queue" /\ tx.lock.queue = "sweep"
    /\ tx.pc["sweep"] = "advance" /\ sweep_writes_request(r)
    /\ tx.lock.request = "decision"

\* The database breaks the cycle: it aborts one of the two transactions, which
\* ends with a deadlock error and gives its locks up.
deadlock_abort(r, victim) ==
    /\ Deadlocked(r)
    /\ tx' = [tx EXCEPT !.pc[victim] = "done", !.result[victim] = "OperationalError",
                        !.lock = [request |-> IF @.request = victim THEN NULL
                                              ELSE @.request,
                                  queue |-> IF @.queue = victim THEN NULL ELSE @.queue]]
    /\ last' = Result(IF victim = "decision" THEN "record_cv_decision"
                      ELSE "auto_advance_dormant", "OperationalError", 0)
    /\ UNCHANGED <<req, mq, flags, notifs, chat, now, profiles>>

RaceDone == \A p \in Procs : tx.pc[p] = "done"

\* CSRMatchController.suggest: the suggestions for request r.
suggest(r, order) ==
    /\ req[r].status # "absent"
    /\ last' = Result("suggest", "ok", suggest_top_of(profiles, order, SuggestLimit))
    /\ UNCHANGED <<req, mq, flags, notifs, chat, now, tx, profiles>>

\* ------------------------------------------- two CSRs committing at once
\* SpecCommitRace runs RequestEntity.commit(csr, r) for both CSRs as two
\* transactions on a row-locking database.
\* Faulty variant of the locking read: a plain SELECT, which waits for nothing.
select_ready(lock) == TRUE

\* select_for_update() is granted once no other transaction holds the row lock.
select_for_update_ready(lock) == lock = NULL

StartCommitRace(r) ==
    /\ tx = IdleTx
    /\ req[r].status # "absent"
    /\ tx' = [IdleTx EXCEPT
                !.committer = [c \in CSRs |-> [pc |-> "select", row |-> NoRequest,
                                               result |-> ""]],
                !.start_status = req[r].status]
    /\ UNCHANGED <<req, mq, flags, notifs, chat, now, last, profiles>>

\* commit: req = Request.objects.select_for_update().get(pk=request_id)
commit_select(r, csr) ==
    /\ tx.committer[csr].pc = "select"
    /\ select_for_update_ready(tx.lock.request)
    /\ tx' = [tx EXCEPT !.committer[csr].pc = "write",
                        !.committer[csr].row = req[r],
                        !.lock.request = csr]
    /\ UNCHANGED <<req, mq, flags, notifs, chat, now, last, profiles>>

\* commit: the status check on the row read, the save, and the end of the
\* transaction (commit, or rollback on ValueError), which releases the lock.
commit_write(r, csr) ==
    LET s == commit_txn([Load(r) EXCEPT !.req = tx.committer[csr].row], csr, now)
        res == IF s.err = "" THEN "ok" ELSE s.err
    IN /\ tx.committer[csr].pc = "write"
       /\ IF s.err = ""
          THEN req' = [req EXCEPT ![r] = s.req]
          ELSE UNCHANGED req
       /\ tx' = [tx EXCEPT !.committer[csr].pc = "done",
                           !.committer[csr].result = res,
                           !.lock.request = IF @ = csr THEN NULL ELSE @]
       /\ last' = Result("commit", res, 0)
       /\ UNCHANGED <<mq, flags, notifs, chat, now, profiles>>

CommitRaceDone == \A c \in CSRs : tx.committer[c].pc = "done"

\* --------------------------------------------------------- specifications
\* The window a specification explores: at most l notifications and f flags
\* per request, and at most k Ticks of the clock.
Bounded(l, f, k) ==
    /\ \A r \in Requests : Len(notifs[r]) <= l /\ Len(flags[r]) <= f
    /\ now <= k * TickMinutes

\* The request the sequential specifications work on.
MainRequests == {"r1"}
FlagIds == 1..3

\* Spec: every operation, on one request.
Window == Bounded(MaxLog, MaxFlags, MaxTicks)

Next ==
    \/ \E r \in MainRequests, flagged \in BOOLEAN :
          submit_request(r, flagged) /\ Window'
    \/ \E r \in MainRequests :
          create_request(r) /\ Window'
    \/ \E r \in MainRequests :
          moderation_pass(r) /\ Window'
    \/ \E r \in MainRequests :
          moderation_reject(r) /\ Window'
    \/ \E r \in MainRequests, csr \in MainCSRs :
          commit(csr, r) /\ Window'
    \/ \E r \in MainRequests, cv \in CVs :
          assign_cv(r, cv) /\ Window'
    \/ \E r \in MainRequests :
          unassign_cv(r) /\ Window'
    \/ \E r \in MainRequests :
          svc_complete_request(r) /\ Window'
    \/ \E r \in MainRequests :
          chat_complete_request(r) /\ Window'
    \/ \E r \in MainRequests :
          auto_flag_request(r) /\ Window'
    \/ \E r \in MainRequests, csr \in MainCSRs :
          manual_flag_request(r, csr) /\ Window'
    \/ \E r \in MainRequests, i \in FlagIds, pa \in PAs :
          accept_flag(r, i, pa) /\ Window'
    \/ \E r \in MainRequests, i \in FlagIds, pa \in PAs :
          reject_flag(r, i, pa) /\ Window'
    \/ \E r \in MainRequests, cv_ids \in PoolInputs :
          set_assignment_pool(r, cv_ids) /\ Window'
    \/ \E r \in MainRequests :
          send_offers(r, DefaultTimeoutMinutes) /\ Window'
    \/ \E r \in MainRequests, cv \in CVs, accepted \in BOOLEAN :
          record_cv_decision(r, cv, accepted) /\ Window'
    \/ auto_advance_dormant /\ Window'
    \/ \E r \in MainRequests :
          get_assignment_pool(r) /\ Window'
    \/ Tick /\ Window'

Spec == Init /\ [][Next]_vars

\* SpecQueue: one request is submitted and committed, and its Match Queue is
\* built, offered, decided, read and swept while the clock runs.
QueueWindow == Bounded(QueueLog, 0, QueueTicks)

QueueNext ==
    \/ \E r \in MainRequests :
          submit_request(r, FALSE) /\ QueueWindow'
    \/ \E r \in MainRequests, csr \in MainCSRs :
          commit(csr, r) /\ QueueWindow'
    \/ \E r \in MainRequests, cv_ids \in PoolInputs :
          set_assignment_pool(r, cv_ids) /\ QueueWindow'
    \/ \E r \in MainRequests :
          send_offers(r, DefaultTimeoutMinutes) /\ QueueWindow'
    \/ \E r \in MainRequests, cv \in CVs, accepted \in BOOLEAN :
          record_cv_decision(r, cv, accepted) /\ QueueWindow'
    \/ auto_advance_dormant /\ QueueWindow'
    \/ \E r \in MainRequests :
          get_assignment_pool(r) /\ QueueWindow'
    \/ Tick /\ QueueWindow'

SpecQueue == Init /\ [][QueueNext]_vars

\* SpecDecline: the Match Queue of one committed request under decisions only
\* (no offer times out), with a log long enough for whole rounds of offers.
DeclineWindow == Bounded(DeclineLog, 0, 0)

DeclineNext ==
    \/ \E r \in MainRequests :
          submit_request(r, FALSE) /\ DeclineWindow'
    \/ \E r \in MainRequests, csr \in MainCSRs :
          commit(csr, r) /\ DeclineWindow'
    \/ \E r \in MainRequests, cv_ids \in PoolInputs :
          set_assignment_pool(r, cv_ids) /\ DeclineWindow'
    \/ \E r \in MainRequests :
          send_offers(r, DefaultTimeoutMinutes) /\ DeclineWindow'
    \/ \E r \in MainRequests, cv \in CVs, accepted \in BOOLEAN :
          record_cv_decision(r, cv, accepted) /\ DeclineWindow'

SpecDecline == Init /\ [][DeclineNext]_vars

\* SpecModeration: the Request Lifecycle and the Flag Ledger, without a queue.
ModerationWindow == Bounded(0, ModerationFlags, 0)

ModerationNext ==
    \/ \E r \in MainRequests, flagged \in BOOLEAN :
          submit_request(r, flagged) /\ ModerationWindow'
    \/ \E r \in MainRequests :
          create_request(r) /\ ModerationWindow'
    \/ \E r \in MainRequests :
          moderation_pass(r) /\ ModerationWindow'
    \/ \E r \in MainRequests :
          moderation_reject(r) /\ ModerationWindow'
    \/ \E r \in MainRequests, csr \in CSRs :
          commit(csr, r) /\ ModerationWindow'
    \/ \E r \in MainRequests, cv \in CVs :
          assign_cv(r, cv) /\ ModerationWindow'
    \/ \E r \in MainRequests :
          unassign_cv(r) /\ ModerationWindow'
    \/ \E r \in MainRequests :
          svc_complete_request(r) /\ ModerationWindow'
    \/ \E r \in MainRequests :
          chat_complete_request(r) /\ ModerationWindow'
    \/ \E r \in MainRequests :
          auto_flag_request(r) /\ ModerationWindow'
    \/ \E r \in MainRequests, csr \in CSRs :
          manual_flag_request(r, csr) /\ ModerationWindow'
    \/ \E r \in MainRequests, i \in FlagIds, pa \in PAs :
          accept_flag(r, i, pa) /\ ModerationWindow'
    \/ \E r \in MainRequests, i \in FlagIds, pa \in PAs :
          reject_flag(r, i, pa) /\ ModerationWindow'

SpecModeration == Init /\ [][ModerationNext]_vars

\* SpecRace: a queue is set up by sequential calls, then one decline and one
\* sweep run concurrently.
RaceWindow == Bounded(RaceLog, 0, RaceTicks)

RaceNext ==
    \/ \E r \in MainRequests :
          tx = IdleTx /\ submit_request(r, FALSE) /\ RaceWindow'
    \/ \E r \in MainRequests, csr \in MainCSRs :
          tx = IdleTx /\ commit(csr, r) /\ RaceWindow'
    \/ \E r \in MainRequests, cv_ids \in PoolInputs :
          tx = IdleTx /\ set_assignment_pool(r, cv_ids) /\ RaceWindow'
    \/ \E r \in MainRequests :
          tx = IdleTx /\ send_offers(r, DefaultTimeoutMinutes) /\ RaceWindow'
    \/ \E r \in MainRequests, cv \in CVs :
          tx = IdleTx /\ record_cv_decision(r, cv, FALSE) /\ RaceWindow'
    \/ tx = IdleTx /\ Tick /\ RaceWindow'
    \/ \E r \in MainRequests :
          StartRace(r) /\ RaceWindow'
    \/ \E r \in MainRequests :
          decision_lock_request(r) /\ RaceWindow'
    \/ \E r \in MainRequests :
          decision_lock_queue(r) /\ RaceWindow'
    \/ \E r \in MainRequests :
          decision_finish(r) /\ RaceWindow'
    \/ \E r \in MainRequests :
          sweep_select(r) /\ RaceWindow'
    \/ \E r \in MainRequests :
          sweep_advance(r) /\ RaceWindow'
    \/ \E r \in MainRequests :
          sweep_commit(r) /\ RaceWindow'
    \/ \E r \in MainRequests, victim \in Procs :
          deadlock_abort(r, victim) /\ RaceWindow'

SpecRace == Init /\ [][RaceNext]_vars

\* SpecCommitRace: requests are submitted, moderated, flagged and committed
\* by sequential calls, then both CSRs commit the same request concurrently.
CommitRaceWindow == Bounded(0, CommitRaceFlags, CommitRaceTicks)

CommitRaceNext ==
    \/ \E r \in Requests, flagged \in BOOLEAN :
          tx = IdleTx /\ submit_request(r, flagged) /\ CommitRaceWindow'
    \/ \E r \in MainRequests :
          tx = IdleTx /\ moderation_pass(r) /\ CommitRaceWindow'
    \/ \E r \in MainRequests :
          tx = IdleTx /\ moderation_reject(r) /\ CommitRaceWindow'
    \/ \E r \in MainRequests, csr \in MainCSRs :
          tx = IdleTx /\ commit(csr, r) /\ CommitRaceWindow'
    \/ \E r \in MainRequests :
          tx = IdleTx /\ auto_flag_request(r) /\ CommitRaceWindow'
    \/ \E r \in MainRequests, i \in FlagIds, pa \in PAs :
          tx = IdleTx /\ accept_flag(r, i, pa) /\ CommitRaceWindow'
    \/ tx = IdleTx /\ Tick /\ CommitRaceWindow'
    \/ \E r \in MainRequests :
          StartCommitRace(r) /\ CommitRaceWindow'
    \/ \E r \in MainRequests, csr \in CSRs :
          commit_select(r, csr) /\ CommitRaceWindow'
    \/ \E r \in MainRequests, csr \in CSRs :
          commit_write(r, csr) /\ CommitRaceWindow'

SpecCommitRace == Init /\ [][CommitRaceNext]_vars

\* SpecRanking: the ranking on every PIN preference, request category and
\* table of CV rows.
RankingInit ==
    /\ req = [r \in Requests |-> NoRequest]
    /\ mq = [r \in Requests |-> NoQueue]
    /\ flags = [r \in Requests |-> <<>>]
    /\ notifs = [r \in Requests |-> <<>>]
    /\ chat = [r \in Requests |-> NoTime]
    /\ now = 0
    /\ last = Result("init", "ok", 0)
    /\ tx = IdleTx
    /\ profiles \in [pin : PinProfiles, service_type : ServiceCategories,
                      cv : [CVs -> CvProfiles]]

RankingNext ==
    \/ \E r \in MainRequests :
          submit_request(r, FALSE)
    \/ \E r \in MainRequests, order \in CvOrders :
          suggest(r, order)

SpecRanking == RankingInit /\ [][RankingNext]_vars

\* SpecSweep: two requests, each with its own queue of two candidates, a flag
\* ledger and the clock, under the sweep.
SweepWindow == Bounded(SweepLog, SweepFlags, SweepTicks)

SweepPool == <<"cvA", "cvB">>

SweepNext ==
    \/ \E r \in Requests :
          submit_request(r, FALSE) /\ SweepWindow'
    \/ \E r \in Requests, csr \in MainCSRs :
          commit(csr, r) /\ SweepWindow'
    \/ \E r \in Requests :
          set_assignment_pool(r, SweepPool) /\ SweepWindow'
    \/ \E r \in Requests :
          send_offers(r, DefaultTimeoutMinutes) /\ SweepWindow'
    \/ \E r \in Requests :
          auto_flag_request(r) /\ SweepWindow'
    \/ \E r \in Requests, i \in FlagIds, pa \in PAs :
          accept_flag(r, i, pa) /\ SweepWindow'
    \/ Tick /\ SweepWindow'
    \/ auto_advance_dormant /\ SweepWindow'

SpecSweep == Init /\ [][SweepNext]_vars

\* SpecLive: one queue is built once and sent once, then left to the
\* candidates' decisions, the flag workflow and the periodic sweep.  The clock
\* moves while an offer is open, and the job that calls auto_advance_dormant
\* keeps running: both are weakly fair.
LiveWindow == Bounded(LiveLog, LiveFlags, LiveTicks)

\* The clock passes the deadline of an open offer.
offer_times_out ==
    /\ \E r \in MainRequests : mq[r].status = "active" /\ ~is_dormant(mq[r], now)
    /\ Tick

\* The periodic job's call of auto_advance_dormant.
sweep_dormant == auto_advance_dormant /\ LiveWindow'

LiveNext ==
    \/ \E r \in MainRequests :
          submit_request(r, FALSE) /\ LiveWindow'
    \/ \E r \in MainRequests, csr \in MainCSRs :
          commit(csr, r) /\ LiveWindow'
    \/ \E r \in MainRequests, cv_ids \in PoolInputs :
          mq[r].status = "absent" /\ set_assignment_pool(r, cv_ids) /\ LiveWindow'
    \/ \E r \in MainRequests :
          mq[r].status = "pending" /\ send_offers(r, DefaultTimeoutMinutes) /\ LiveWindow'
    \/ \E r \in MainRequests, cv \in CVs, accepted \in BOOLEAN :
          record_cv_decision(r, cv, accepted) /\ LiveWindow'
    \/ \E r \in MainRequests, csr \in MainCSRs :
          manual_flag_request(r, csr) /\ LiveWindow'
    \/ \E r \in MainRequests, i \in FlagIds, pa \in PAs :
          accept_flag(r, i, pa) /\ LiveWindow'
    \/ offer_times_out /\ LiveWindow'
    \/ sweep_dormant

SpecLive ==
    /\ Init
    /\ [][LiveNext]_vars
    /\ WF_vars(offer_times_out /\ LiveWindow')
    /\ WF_vars(sweep_dormant)

\* ------------------------------------------------------------------ claims
HasRequest(r) == req[r].status # "absent"
HasQueue(r) == mq[r].status # "absent"

\* C1: in every reachable state, every request has committed_by and
\* committed_at both null or both set; a pending request has both null; a
\* committed or active request has both set.
C1_CommitFieldsInvariant ==
    \A r \in Requests :
        HasRequest(r) =>
            /\ (req[r].committed_by_csr = NULL) <=> (req[r].committed_at = NoTime)
            /\ req[r].status = "pending" =>
                    req[r].committed_by_csr = NULL /\ req[r].committed_at = NoTime
            /\ req[r].status \in {"committed", "active"} =>
                    req[r].committed_by_csr # NULL /\ req[r].committed_at # NoTime

\* C2: in every reachable state, every MatchQueue has its cursor in {1,2,3};
\* an active queue has a candidate in the slot at the cursor; a filled queue's
\* request is assigned to the candidate in the slot at the cursor.
C2_QueueInvariant ==
    \A r \in Requests :
        HasQueue(r) =>
            /\ mq[r].current_index \in {1, 2, 3}
            /\ mq[r].status = "active" => get_current_cv(mq[r]) # NULL
            /\ mq[r].status = "filled" => req[r].cv = get_current_cv(mq[r])

Unresolved(r) == {i \in DOMAIN flags[r] : ~flags[r][i].resolved}

\* C10: in every reachable state, a request with at least one unresolved flag
\* is in status review.
C10_OpenFlagKeepsReview ==
    \A r \in Requests : Unresolved(r) # {} => req[r].status = "review"

\* C3: a decline by the current candidate racing a sweep on the same active
\* queue moves the cursor forward by exactly one slot; one of the two wins and
\* the other observes the post-advance state: the decision fails its
\* precondition, or the sweep skips the queue and returns 0.
C3_DeclineSweepRace ==
    \A r \in MainRequests :
        RaceDone =>
            /\ mq[r].current_index <= tx.start_index + 1
            /\ mq[r].status = "active" => mq[r].current_index = tx.start_index + 1
            /\ \/ /\ tx.result["decision"] = "ok"
                  /\ tx.result["sweep"] = "ok" /\ tx.ret = 0
               \/ /\ tx.result["sweep"] = "ok" /\ tx.ret = 1
                  /\ tx.result["decision"] = "ValueError"

Notification(type, cv) == [type |-> type, cv |-> cv]
CountOf(log, types) == Cardinality({i \in DOMAIN log : log[i].type \in types})

\* C4: on a committed request whose queue is built and sent, an accept by the
\* candidate at the cursor leaves the request active and assigned to that
\* candidate, the queue filled, and appends a match-accepted notification.
C4_AcceptFillsMatch ==
    [][\A r \in MainRequests, cv \in CVs :
        ( /\ req[r].status = "committed"
          /\ mq[r].status = "active"
          /\ get_current_cv(mq[r]) = cv
          /\ record_cv_decision(r, cv, TRUE) )
        => /\ last'.result = "ok"
           /\ req'[r].status = "active"
           /\ req'[r].cv = cv
           /\ mq'[r].status = "filled"
           /\ notifs'[r] = Append(notifs[r], Notification("match_accepted", cv))]_vars

C4_Witness ==
    \E r \in MainRequests :
        /\ last.op = "record_cv_decision" /\ last.result = "ok"
        /\ req[r].status = "active" /\ req[r].cv = get_current_cv(mq[r])
        /\ req[r].committed_by_csr # NULL
        /\ mq[r].status = "filled"
        /\ notifs[r] # <<>>
        /\ notifs[r][Len(notifs[r])] = Notification("match_accepted", req[r].cv)

\* The notifications of r from the latest offer-sent on.
SinceSend(r) ==
    LET log == notifs[r]
        sent == {i \in DOMAIN log : log[i].type = "offer_sent"}
    IN IF sent = {} THEN <<>>
       ELSE SubSeq(log, CHOOSE i \in sent : \A j \in sent : j <= i, Len(log))

\* A queue of three candidates, sent, then declined by each of them in turn.
ThreeDeclines(r) ==
    /\ mq[r].cv3queue # NULL
    /\ mq[r].status = "exhausted"
    /\ CountOf(SinceSend(r), {"offer_declined"}) = 3

C6_InvalidDecisionFails ==
    [][\A r \in MainRequests, cv \in CVs, accepted \in BOOLEAN :
        ( /\ mq[r].status # "active" \/ get_current_cv(mq[r]) # cv
          /\ record_cv_decision(r, cv, accepted) )
        => /\ last'.result = "ValueError"
           /\ UNCHANGED <<req, mq, notifs>>]_vars

C6_Witness ==
    \E r \in MainRequests :
        /\ last.op = "record_cv_decision" /\ last.result = "ValueError"
        /\ mq[r].status = "active" /\ mq[r].current_index = 2

\* C7: after a call of the sweep no queue is past its deadline at the same
\* now, so a second call in immediate succession advances nothing and
\* returns 0.
C7_SweepIdempotent ==
    [][auto_advance_dormant => \A r \in Requests : ~is_dormant(mq'[r], now')]_vars

\* C8: the sweep moves an active queue past its deadline, with a candidate in
\* the next slot, forward by exactly one slot, keeps it active, sets a
\* deadline later than now, counts it once in the number it returns and
\* appends exactly one offer-expired notification.
C8_SweepAdvancesOne ==
    [][\A r \in MainRequests :
        ( /\ is_dormant(mq[r], now)
          /\ next_cv_of(mq[r]) # NULL
          /\ auto_advance_dormant )
        => /\ mq'[r].current_index = mq[r].current_index + 1
           /\ mq'[r].status = "active"
           /\ mq'[r].deadline > now
           /\ last'.result = "ok"
           /\ last'.ret = Cardinality({x \in Requests : is_dormant(mq[x], now)})
           /\ CountOf(notifs'[r], {"offer_expired"}) =
                  CountOf(notifs[r], {"offer_expired"}) + 1]_vars

\* C9: creating an unresolved flag, auto or manual, against a request leaves
\* the request in review whatever its status was.
C9_NewFlagForcesReview ==
    [][\A r \in MainRequests :
        (auto_flag_request(r) \/ \E csr \in CSRs : manual_flag_request(r, csr))
        => /\ req'[r].status = "review"
           /\ Len(flags'[r]) = Len(flags[r]) + 1
           /\ ~flags'[r][Len(flags'[r])].resolved]_vars

C9_Witness ==
    \E r \in MainRequests :
        /\ last.op \in {"auto_flag_request", "manual_flag_request"}
        /\ req[r].status = "review"
        /\ req[r].completed_at # NoTime
        /\ req[r].committed_by_csr # NULL
        /\ Unresolved(r) # {}
\* C11: accepting a flag marks it resolved with outcome accepted and the
\* resolving PA recorded, and leaves the request pending with committer and
\* commit time cleared; rejecting a flag marks it resolved with outcome
\* rejected and leaves the request rejected.
C11_ResolveSetsOutcome ==
    [][\A r \in MainRequests, i \in FlagIds, pa \in PAs :
        /\ accept_flag(r, i, pa) =>
              /\ flags'[r][i].resolved
              /\ flags'[r][i].resolution_outcome = "accepted"
              /\ flags'[r][i].resolved_by = pa
              /\ req'[r].status = "pending"
              /\ req'[r].committed_by_csr = NULL
              /\ req'[r].committed_at = NoTime
        /\ reject_flag(r, i, pa) =>
              /\ flags'[r][i].resolved
              /\ flags'[r][i].resolution_outcome = "rejected"
              /\ flags'[r][i].resolved_by = pa
              /\ req'[r].status = "rejected"]_vars

\* An accepted flag on a request that was flagged after a volunteer was assigned.
C11_Witness ==
    \E r \in MainRequests :
        /\ last.op = "accept_flag"
        /\ Unresolved(r) = {} /\ flags[r] # <<>>
        /\ flags[r][Len(flags[r])].resolution_outcome = "accepted"
        /\ req[r].status = "pending" /\ req[r].cv # NULL

\* C12: when both CSRs commit the same request concurrently, a request that
\* was pending ends committed, exactly one commit succeeds, the other fails
\* with the invalid-status error, and the recorded committer is the CSR whose
\* commit succeeded; a request that was not pending is left as it was and
\* both commits fail.
C12_OneCommitWins ==
    \A r \in MainRequests :
        CommitRaceDone =>
            LET won == {c \in CSRs : tx.committer[c].result = "ok"}
            IN /\ \A c \in CSRs \ won : tx.committer[c].result = "ValueError"
               /\ tx.start_status = "pending" =>
                     /\ Cardinality(won) = 1
                     /\ req[r].status = "committed"
                     /\ req[r].committed_by_csr \in won
                     /\ req[r].committed_at # NoTime
               /\ tx.start_status # "pending" =>
                     /\ won = {}
                     /\ req[r].status = tx.start_status

\* The second CSR wins the race for a pending request, the first one fails.
C12_Witness ==
    \E r \in MainRequests :
        /\ CommitRaceDone
        /\ tx.start_status = "pending"
        /\ tx.committer["csr2"].result = "ok"
        /\ tx.committer["csr1"].result = "ValueError"
        /\ req[r].committed_by_csr = "csr2"

\* C13: complete and rejected are terminal: once a request is complete or
\* rejected, no operation changes its status.
C13_TerminalStatuses ==
    [][\A r \in Requests :
        req[r].status \in {"complete", "rejected"} =>
            req'[r].status = req[r].status]_vars

\* The PIN and request of the ranking example: Healthcare, zh, female.
RankingCase ==
    /\ profiles.service_type = "Healthcare"
    /\ profiles.pin.preferred_cv_language = "zh"
    /\ profiles.pin.preferred_cv_gender = "female"

MatchesCategory(c) == profiles.cv[c].service_category_preference = profiles.service_type
MatchesGender(c) == profiles.cv[c].gender = profiles.pin.preferred_cv_gender
MatchesLanguage(c) ==
    profiles.pin.preferred_cv_language
        \in {profiles.cv[c].main_language, profiles.cv[c].second_language}
MatchesAll(c) == MatchesCategory(c) /\ MatchesGender(c) /\ MatchesLanguage(c)
MatchesCategoryOnly(c) == MatchesCategory(c) /\ ~MatchesGender(c) /\ ~MatchesLanguage(c)
MatchesNone(c) == ~MatchesCategory(c) /\ ~MatchesGender(c) /\ ~MatchesLanguage(c)

\* The score of CV c in a list of suggestions (every CV is in the list).
ScoreIn(list, c) == (CHOOSE x \in {list[i] : i \in DOMAIN list} : x.cv_id = c).score

\* C14: for a Healthcare request of a PIN preferring zh and female, a CV
\* matching category, language and gender scores strictly higher than a CV
\* matching the category only, which scores strictly higher than a CV
\* matching nothing; the suggestions come in non-increasing score order, with
\* an all-matching CV first when there is one.
C14_RankingOrder ==
    [][\A r \in MainRequests, order \in CvOrders :
        (RankingCase /\ suggest(r, order)) =>
            LET list == last'.ret
            IN /\ {list[i].cv_id : i \in DOMAIN list} = CVs
               /\ \A a, b, c \in CVs :
                     MatchesAll(a) /\ MatchesCategoryOnly(b) /\ MatchesNone(c) =>
                        /\ ScoreIn(list, a) > ScoreIn(list, b)
                        /\ ScoreIn(list, b) > ScoreIn(list, c)
               /\ \A i, j \in DOMAIN list : i < j => list[i].score >= list[j].score
               /\ (\E a \in CVs : MatchesAll(a)) => MatchesAll(list[1].cv_id)]_vars

\* Suggestions for the example with one CV of each kind.
C14_Witness ==
    /\ RankingCase
    /\ last.op = "suggest"
    /\ \E a, b, c \in CVs :
          /\ MatchesAll(a) /\ MatchesCategoryOnly(b) /\ MatchesNone(c)
          /\ last.ret[1].cv_id = a /\ last.ret[2].cv_id = b /\ last.ret[3].cv_id = c

\* C15: completing an active request leaves it complete with completed_at
\* stamped and the chat room expiring exactly 24 hours after completed_at;
\* completing a request that is complete already changes neither its
\* completed_at nor the chat room's expiry.
C15_CompleteIdempotent ==
    [][\A r \in MainRequests :
        chat_complete_request(r) =>
            /\ req[r].status = "active" =>
                  /\ req'[r].status = "complete"
                  /\ req'[r].completed_at # NoTime
                  /\ chat'[r] = req'[r].completed_at + ChatExpiryHours * 60
            /\ req[r].status = "complete" =>
                  /\ req'[r].completed_at = req[r].completed_at
                  /\ chat'[r] = chat[r]]_vars

\* C16: an accept by the current candidate assigns the request only from the
\* committed status: on a request that is not committed the decision fails
\* and leaves the request and the queue unchanged.
C16_AcceptNeedsCommitted ==
    [][\A r \in MainRequests, cv \in CVs :
        ( /\ req[r].status # "committed"
          /\ record_cv_decision(r, cv, TRUE) )
        => /\ last'.result # "ok"
           /\ UNCHANGED <<req, mq>>]_vars

\* C17: send_offers on a queue that is active, filled or exhausted does not
\* set it to active, does not restart its deadline and appends no offer-sent
\* notification.
C17_SendNeedsBuiltQueue ==
    [][\A r \in MainRequests :
        ( /\ mq[r].status \in {"active", "filled", "exhausted"}
          /\ send_offers(r, DefaultTimeoutMinutes) )
        => /\ mq'[r] = mq[r]
           /\ notifs'[r] = notifs[r]]_vars

\* The notifications a step appends to the log of r.
Appended(r) == SubSeq(notifs'[r], Len(notifs[r]) + 1, Len(notifs'[r]))

\* C18: for each expired queue the sweep advances, the offer-expired
\* notification comes before any notification of the advance and names the
\* candidate that was at the cursor before the advance.
C18_ExpiredBeforeAdvance ==
    [][\A r \in MainRequests :
        ( /\ is_dormant(mq[r], now)
          /\ auto_advance_dormant
          /\ last'.result = "ok" )
        => /\ Appended(r) # <<>>
           /\ Appended(r)[1] = Notification("offer_expired", get_current_cv(mq[r]))]_vars

\* C19: a queue whose processing fails does not block the sweep: every other
\* expired queue is advanced by the same run, and the failing queue is left
\* unchanged.
C19_SweepContinuesAfterFailure ==
    [][auto_advance_dormant =>
        \A r \in Requests :
            is_dormant(mq[r], now) =>
                LET s == sweep_one(Load(r), now)
                IN IF s.err = ""
                   THEN mq'[r] = s.mq /\ req'[r] = s.req /\ notifs'[r] = s.notifs
                   ELSE mq'[r] = mq[r] /\ req'[r] = req[r] /\ notifs'[r] = notifs[r]]_vars

\* C20: a flag is resolved at most once: an accept or reject of a flag that is
\* resolved already changes neither the flag's outcome, resolver and
\* timestamp nor the request's status.
C20_ResolvedOnce ==
    [][\A r \in MainRequests, i \in FlagIds, pa \in PAs :
        ( /\ i \in DOMAIN flags[r]
          /\ flags[r][i].resolved
          /\ accept_flag(r, i, pa) \/ reject_flag(r, i, pa) )
        => /\ flags'[r][i] = flags[r][i]
           /\ req'[r].status = req[r].status]_vars

\* C21: an offer whose deadline has passed cannot be accepted: an accept by
\* the current candidate after the deadline neither fills the queue nor
\* assigns the request, also when no sweep has run since the deadline.
C21_ExpiredOfferNotAccepted ==
    [][\A r \in MainRequests, cv \in CVs :
        ( /\ is_dormant(mq[r], now)
          /\ get_current_cv(mq[r]) = cv
          /\ record_cv_decision(r, cv, TRUE) )
        => /\ mq'[r].status # "filled"
           /\ req'[r].cv = req[r].cv
           /\ req'[r].status = req[r].status]_vars

\* C22: get_assignment_pool is a read: it leaves the queue's cursor, status,
\* sent_at and deadline, the request's status and cv and the notification log
\* unchanged, also when the queue is active and its deadline has passed.
C22_PoolReadChangesNothing ==
    [][\A r \in MainRequests :
        get_assignment_pool(r)
        => /\ mq'[r] = mq[r]
           /\ req'[r].status = req[r].status
           /\ req'[r].cv = req[r].cv
           /\ notifs'[r] = notifs[r]]_vars

\* C23: build requires the request to be pending or committed: for a request
\* in review, active, complete or rejected, set_assignment_pool fails and
\* neither creates nor changes a queue.
C23_BuildNeedsOpenRequest ==
    [][\A r \in MainRequests, cv_ids \in PoolInputs :
        ( /\ req[r].status \in {"review", "active", "complete", "rejected"}
          /\ set_assignment_pool(r, cv_ids) )
        => /\ last'.result # "ok"
           /\ mq'[r] = mq[r]]_vars

\* C24: build accepts only 1 to 3 distinct ids of existing CVs: an empty list,
\* more than three ids, a repeated id or an unknown id is rejected before any
\* mutation; a built queue holds the ids in order in contiguous slots from
\* slot 1 and never holds the same CV in two slots.
C24_BuildNeedsDistinctCvs ==
    [][\A r \in MainRequests, cv_ids \in PoolInputs :
        set_assignment_pool(r, cv_ids)
        => LET n == Len(cv_ids)
               valid == /\ 1 <= n /\ n <= 3
                        /\ \A i \in 1..n : cv_ids[i] \in CVs
                        /\ \A i, j \in 1..n : i # j => cv_ids[i] # cv_ids[j]
               slots == <<mq'[r].cv1queue, mq'[r].cv2queue, mq'[r].cv3queue>>
           IN IF valid
              THEN /\ last'.result = "ok"
                   /\ \A i \in 1..3 : slots[i] = IF i <= n THEN cv_ids[i] ELSE NULL
              ELSE /\ last'.result # "ok"
                   /\ mq'[r] = mq[r]]_vars

\* C25: when the current candidate of an active queue declines or times out
\* and no further candidate follows (queues of 1, 2 or 3 candidates), the
\* queue becomes exhausted, the request committed with cv cleared and its
\* committer and commit timestamp kept, and the log gains exactly one
\* no-match-found event and no queue-advanced or offer-sent event.
C25_LastCandidateExhausts ==
    [][\A r \in MainRequests :
        ( /\ mq[r].status = "active"
          /\ get_current_cv(mq[r]) # NULL
          /\ next_cv_of(mq[r]) = NULL
          /\ \/ record_cv_decision(r, get_current_cv(mq[r]), FALSE)
             \/ is_dormant(mq[r], now) /\ auto_advance_dormant )
        => /\ mq'[r].status = "exhausted"
           /\ req'[r].status = "committed"
           /\ req'[r].cv = NULL
           /\ req'[r].committed_by_csr = req[r].committed_by_csr
           /\ req'[r].committed_at = req[r].committed_at
           /\ CountOf(Appended(r), {"no_match_found"}) = 1
           /\ CountOf(Appended(r), {"queue_advanced", "offer_sent"}) = 0]_vars

\* C26: complete validates the prior status: it succeeds only from active
\* (and changes nothing on a request already complete); on a request in
\* review, pending, committed or rejected it fails and leaves status and
\* completed_at unchanged.
C26_CompleteNeedsActive ==
    [][\A r \in MainRequests :
        ( /\ req[r].status \in {"review", "pending", "committed", "rejected"}
          /\ chat_complete_request(r) )
        => /\ last'.result # "ok"
           /\ req'[r].status = req[r].status
           /\ req'[r].completed_at = req[r].completed_at]_vars

\* C27: in every reachable state, an active MatchQueue belongs to a request
\* whose status is committed and whose cv is null.
C27_ActiveQueueOnCommittedRequest ==
    \A r \in Requests :
        mq[r].status = "active" =>
            req[r].status = "committed" /\ req[r].cv = NULL

\* C28: concurrent record_decision and sweep_dormant on the same request never
\* deadlock: in no reachable state does one transaction hold the request row
\* lock and wait for the queue row while the other holds the queue row lock
\* and waits for the request row.
C28_NoDeadlock ==
    \A r \in MainRequests : ~Deadlocked(r)

\* C29: under a sweep that keeps running while the clock advances, and with
\* no rebuild, every queue that becomes active eventually is filled or
\* exhausted.
C29_ActiveQueueEnds ==
    \A r \in MainRequests :
        (mq[r].status = "active") ~> (mq[r].status \in {"filled", "exhausted"})

\* C30: in every reachable state a request has an assigned CV only if its
\* status is active or complete: a request returned to pending or review by
\* the flag workflow, or to committed by exhaustion, carries no assignee.
C30_AssigneeOnlyWhenActive ==
    \A r \in Requests :
        req[r].cv # NULL => req[r].status \in {"active", "complete"}

====
